---- MODULE Spec2Model ----
(***************************************************************************)
(* A model of opencog/nlp/question/WordRelQuery.cc: detection of query     *)
(* words, construction of the bound-variable list, the node equivalence    *)
(* callback node_match and the solution callback.                          *)
(*                                                                         *)
(* An atom is a record [type, name, out]: a Node has a name and no         *)
(* outgoing set, a Link has an outgoing sequence of atoms.  The AtomSpace  *)
(* keeps one atom per (type, name) and per (type, outgoing set), so a      *)
(* Handle is modelled by the atom it names and Handle equality by equality *)
(* of the records.  Names are sequences of characters, so that strcmp and  *)
(* strchr are computed on them.                                            *)
(***************************************************************************)
EXTENDS Integers, Sequences, FiniteSets, TLC

VARIABLES
    atom_space,        \* the atoms held by the AtomSpace
    normed_predicate,  \* std::vector<Handle> normed_predicate
    bound_vars,        \* std::vector<Handle> bound_vars
    pred_grounding,    \* the search engine's std::map<Handle, Handle>
    var_grounding,     \* the search engine's std::map<Handle, Handle>
    added_links,       \* the addLink calls made by solution, in order
    tops,              \* history: the top-level handles given to find_vars
    direct_vars,       \* history: the handles given directly to add_to_vars
    last               \* the last call: its name, arguments, result, branch

vars == <<atom_space, normed_predicate, bound_vars, pred_grounding,
          var_grounding, added_links, tops, direct_vars, last>>

(***************************************************************************)
(* Atom types and names used by the code.                                  *)
(***************************************************************************)
WORD_NODE == "WordNode"
SEME_NODE == "SemeNode"
WORD_INSTANCE_NODE == "WordInstanceNode"
DEFINED_LINGUISTIC_CONCEPT_NODE == "DefinedLinguisticConceptNode"
DEFINED_LINGUISTIC_RELATIONSHIP_NODE == "DefinedLinguisticRelationshipNode"
CONCEPT_NODE == "ConceptNode"
ANCHOR_NODE == "AnchorNode"
INHERITANCE_LINK == "InheritanceLink"
LEMMA_LINK == "LemmaLink"
LIST_LINK == "ListLink"
EVALUATION_LINK == "EvaluationLink"

NodeTypes == {WORD_NODE, SEME_NODE, WORD_INSTANCE_NODE,
              DEFINED_LINGUISTIC_CONCEPT_NODE,
              DEFINED_LINGUISTIC_RELATIONSHIP_NODE, CONCEPT_NODE, ANCHOR_NODE}

who == <<"w", "h", "o">>
what == <<"w", "h", "a", "t">>
when == <<"w", "h", "e", "n">>
where == <<"w", "h", "e", "r", "e">>
why == <<"w", "h", "y">>
isa == <<"i", "s", "a">>
hypothetical_isa == <<"h", "y", "p", "o", "t", "h", "e", "t", "i", "c", "a",
                      "l", "_", "i", "s", "a">>
QUERY_SOLUTION == <<"#", " ", "Q", "U", "E", "R", "Y", " ", "S", "O", "L",
                    "U", "T", "I", "O", "N">>
yes == <<"y", "e", "s">>

Node(t, n) == [type |-> t, name |-> n, out |-> <<>>]
Link(t, o) == [type |-> t, name |-> <<>>, out |-> o]

\* The null Atom pointer, and the atom of Handle::UNDEFINED.
NULL == [type |-> "NULL", name |-> <<>>, out |-> <<>>]

\* dynamic_cast<Node *>(atom) succeeds
IsNode(a) == a.type \in NodeTypes

Range(s) == {s[i] : i \in 1..Len(s)}

\* strcmp(a, b): zero exactly when the two strings are equal
strcmp(a, b) == IF a = b THEN 0 ELSE 1

(***************************************************************************)
(* Is the atom a question word's concept?                                  *)
(***************************************************************************)
\* is_qVar without the test of the atom's type
is_qVar_anytype(word_prop) ==
    IF 0 = strcmp(word_prop.name, who) THEN TRUE
    ELSE IF 0 = strcmp(word_prop.name, what) THEN TRUE
    ELSE IF 0 = strcmp(word_prop.name, when) THEN TRUE
    ELSE IF 0 = strcmp(word_prop.name, where) THEN TRUE
    ELSE IF 0 = strcmp(word_prop.name, why) THEN TRUE
    ELSE FALSE

is_qVar(word_prop) ==
    IF DEFINED_LINGUISTIC_CONCEPT_NODE # word_prop.type THEN FALSE
    ELSE IF 0 = strcmp(word_prop.name, who) THEN TRUE
    ELSE IF 0 = strcmp(word_prop.name, what) THEN TRUE
    ELSE IF 0 = strcmp(word_prop.name, when) THEN TRUE
    ELSE IF 0 = strcmp(word_prop.name, where) THEN TRUE
    ELSE IF 0 = strcmp(word_prop.name, why) THEN TRUE
    ELSE FALSE

\* The binary links of type ltype in the store S with h at one end, as
\* pairs <<link, other end>>.
BinaryLinksOf(S, h, ltype) ==
    {<<l, l.out[2]>> : l \in {k \in S : /\ k.type = ltype
                                        /\ Len(k.out) = 2
                                        /\ k.out[1] = h}}
    \cup
    {<<l, l.out[1]>> : l \in {k \in S : /\ k.type = ltype
                                        /\ Len(k.out) = 2
                                        /\ k.out[2] = h}}

\* foreach_binary_link(h, ltype, &is_qVar, this): true when the callback
\* accepts the other end of some link of that type.
foreach_binary_link_is_qVar(S, h, ltype) ==
    \E p \in BinaryLinksOf(S, h, ltype) : is_qVar(p[2])

is_word_a_query(S, word_inst) ==
    foreach_binary_link_is_qVar(S, word_inst, INHERITANCE_LINK)


(***************************************************************************)
(* Building the predicate and the list of bound variables.                 *)
(***************************************************************************)
add_to_predicate(np, ah) ==
    IF \E i \in 1..Len(np) : np[i] = ah THEN np ELSE Append(np, ah)

\* add_to_vars without the scan for duplicates
add_to_vars_noscan(bv, ah) == Append(bv, ah)

add_to_vars(bv, ah) ==
    IF \E i \in 1..Len(bv) : bv[i] = ah THEN bv ELSE Append(bv, ah)

\* find_vars, and foreach_outgoing_handle(h, &find_vars, this) from the
\* i-th outgoing handle on: the callback is applied to each outgoing handle
\* in order and the loop stops at the first call that returns true.  Both
\* return the list of bound variables and the boolean result.
RECURSIVE find_vars(_, _, _), foreach_outgoing_handle_find_vars(_, _, _, _)
foreach_outgoing_handle_find_vars(S, bv, out, i) ==
    IF i > Len(out) THEN [vars |-> bv, ret |-> FALSE]
    ELSE LET r == find_vars(S, bv, out[i])
         IN  IF r.ret THEN [vars |-> r.vars, ret |-> TRUE]
             ELSE foreach_outgoing_handle_find_vars(S, r.vars, out, i + 1)

find_vars(S, bv, word_instance) ==
    LET below == foreach_outgoing_handle_find_vars(S, bv, word_instance.out, 1)
        qvar == is_word_a_query(S, word_instance)
    IN  IF ~qvar THEN [vars |-> below.vars, ret |-> FALSE]
        ELSE [vars |-> add_to_vars(below.vars, word_instance), ret |-> FALSE]

(***************************************************************************)
(* Matching.  The boolean results mean "mismatch".                         *)
(***************************************************************************)
\* FollowLink::follow_binary_link(a, ltype): the atom at the far end of the
\* link of that type that starts at a, or NULL when there is none.
follow_binary_link(S, a, ltype) ==
    LET ends == {l.out[2] : l \in {k \in S : /\ k.type = ltype
                                             /\ Len(k.out) = 2
                                             /\ k.out[1] = a}}
    IN  IF ends = {} THEN NULL ELSE CHOOSE e \in ends : TRUE

word_instance_match(S, aa, ab) ==
    IF aa = ab THEN FALSE
    ELSE LET ca == follow_binary_link(S, aa, LEMMA_LINK)
             cb == follow_binary_link(S, ab, LEMMA_LINK)
         IN  IF ca = cb THEN FALSE ELSE TRUE

\* strchr(s, c) as the index of the first c in s, 0 when there is none
strchr(s, c) ==
    IF \E i \in 1..Len(s) : s[i] = c
    THEN CHOOSE i \in 1..Len(s) : s[i] = c /\ \A j \in 1..(i - 1) : s[j] # c
    ELSE 0

\* the copy of s cut before its first '_' (lines 305-313 and 314-322)
TruncateAtUnderscore(s) ==
    LET u == strchr(s, "_")
    IN  IF u # 0 THEN SubSeq(s, 1, u - 1) ELSE s

\* node_match whose word branch leaves SemeNode out
node_match_noseme(S, npat, nsoln) ==
    LET pattype == npat.type
        soltype == nsoln.type
    IN  IF /\ pattype # soltype
           /\ WORD_NODE # soltype
           /\ SEME_NODE # soltype
           /\ WORD_INSTANCE_NODE # soltype
        THEN [ret |-> TRUE, branch |-> "gate"]
        ELSE IF DEFINED_LINGUISTIC_RELATIONSHIP_NODE = soltype
        THEN LET spat == npat.name
                 ssol == npat.name
             IN  IF strcmp(isa, spat) # 0 /\ strcmp(hypothetical_isa, spat) # 0
                 THEN [ret |-> TRUE, branch |-> "relation"]
                 ELSE IF strcmp(isa, ssol) # 0 /\ strcmp(hypothetical_isa, ssol) # 0
                 THEN [ret |-> TRUE, branch |-> "relation"]
                 ELSE [ret |-> FALSE, branch |-> "relation"]
        ELSE IF WORD_INSTANCE_NODE = soltype \/ WORD_NODE = soltype
        THEN [ret |-> word_instance_match(S, npat, nsoln), branch |-> "word"]
        ELSE IF DEFINED_LINGUISTIC_CONCEPT_NODE = soltype
        THEN LET sa == TruncateAtUnderscore(npat.name)
                 sb == TruncateAtUnderscore(nsoln.name)
             IN  IF strcmp(sa, sb) = 0
                 THEN [ret |-> FALSE, branch |-> "concept"]
                 ELSE [ret |-> TRUE, branch |-> "concept"]
        ELSE [ret |-> TRUE, branch |-> "unexpected"]

\* node_match whose last statement returns false
node_match_fallthrough(S, npat, nsoln) ==
    LET pattype == npat.type
        soltype == nsoln.type
    IN  IF /\ pattype # soltype
           /\ WORD_NODE # soltype
           /\ SEME_NODE # soltype
           /\ WORD_INSTANCE_NODE # soltype
        THEN [ret |-> TRUE, branch |-> "gate"]
        ELSE IF DEFINED_LINGUISTIC_RELATIONSHIP_NODE = soltype
        THEN LET spat == npat.name
                 ssol == npat.name
             IN  IF strcmp(isa, spat) # 0 /\ strcmp(hypothetical_isa, spat) # 0
                 THEN [ret |-> TRUE, branch |-> "relation"]
                 ELSE IF strcmp(isa, ssol) # 0 /\ strcmp(hypothetical_isa, ssol) # 0
                 THEN [ret |-> TRUE, branch |-> "relation"]
                 ELSE [ret |-> FALSE, branch |-> "relation"]
        ELSE IF \/ WORD_INSTANCE_NODE = soltype
                \/ WORD_NODE = soltype
                \/ SEME_NODE = soltype
        THEN [ret |-> word_instance_match(S, npat, nsoln), branch |-> "word"]
        ELSE IF DEFINED_LINGUISTIC_CONCEPT_NODE = soltype
        THEN LET sa == TruncateAtUnderscore(npat.name)
                 sb == TruncateAtUnderscore(nsoln.name)
             IN  IF strcmp(sa, sb) = 0
                 THEN [ret |-> FALSE, branch |-> "concept"]
                 ELSE [ret |-> TRUE, branch |-> "concept"]
        ELSE [ret |-> FALSE, branch |-> "unexpected"]

\* node_match: the result and the branch that produced it ("gate": the
\* type test of lines 264-267, "relation": lines 271-281, "word": lines
\* 284-291, "concept": lines 296-325, "unexpected": lines 327-335).
node_match(S, npat, nsoln) ==
    LET pattype == npat.type
        soltype == nsoln.type
    IN  IF /\ pattype # soltype
           /\ WORD_NODE # soltype
           /\ SEME_NODE # soltype
           /\ WORD_INSTANCE_NODE # soltype
        THEN [ret |-> TRUE, branch |-> "gate"]
        ELSE IF DEFINED_LINGUISTIC_RELATIONSHIP_NODE = soltype
        THEN LET spat == npat.name
                 ssol == npat.name
             IN  IF strcmp(isa, spat) # 0 /\ strcmp(hypothetical_isa, spat) # 0
                 THEN [ret |-> TRUE, branch |-> "relation"]
                 ELSE IF strcmp(isa, ssol) # 0 /\ strcmp(hypothetical_isa, ssol) # 0
                 THEN [ret |-> TRUE, branch |-> "relation"]
                 ELSE [ret |-> FALSE, branch |-> "relation"]
        ELSE IF \/ WORD_INSTANCE_NODE = soltype
                \/ WORD_NODE = soltype
                \/ SEME_NODE = soltype
        THEN [ret |-> word_instance_match(S, npat, nsoln), branch |-> "word"]
        ELSE IF DEFINED_LINGUISTIC_CONCEPT_NODE = soltype
        THEN LET sa == TruncateAtUnderscore(npat.name)
                 sb == TruncateAtUnderscore(nsoln.name)
             IN  IF strcmp(sa, sb) = 0
                 THEN [ret |-> FALSE, branch |-> "concept"]
                 ELSE [ret |-> TRUE, branch |-> "concept"]
        ELSE [ret |-> TRUE, branch |-> "unexpected"]


(***************************************************************************)
(* The solution callback.  The result holds the boolean returned, the      *)
(* AtomSpace and the var_grounding map after the call, the links given to  *)
(* addLink, and the path taken.                                            *)
(***************************************************************************)
\* std::map::operator[] (line 369): a key that is absent is inserted with
\* a default-constructed Handle (Handle::UNDEFINED, no atom).
MapSubscript(m, k) ==
    IF k \in DOMAIN m THEN m
    ELSE [x \in (DOMAIN m) \cup {k} |-> IF x = k THEN NULL ELSE m[x]]

\* solution that creates the anchor before it looks for a variable solved
\* by a variable
solution_anchor_first(S, bv, pg, vg) ==
    LET hq == Node(ANCHOR_NODE, QUERY_SOLUTION)
        S1 == S \cup {hq}
    IN  IF \E k \in DOMAIN vg : is_word_a_query(S1, vg[k])
        THEN [ret |-> FALSE, space |-> S1, vg |-> vg, links |-> <<>>,
              path |-> "variable"]
        ELSE IF 0 < Len(bv)
        THEN LET hv == bv[1]
                 vg1 == MapSubscript(vg, hv)
                 ha == vg1[hv]
             IN  IF ~IsNode(ha)
                 THEN [ret |-> FALSE, space |-> S1, vg |-> vg1,
                       links |-> <<>>, path |-> "malformed"]
                 ELSE [ret |-> FALSE,
                       space |-> S1 \cup {Link(LIST_LINK, <<hq, ha>>)},
                       vg |-> vg1,
                       links |-> <<Link(LIST_LINK, <<hq, ha>>)>>,
                       path |-> "answer"]
        ELSE LET hw == Node(WORD_NODE, yes)
             IN  [ret |-> FALSE,
                  space |-> S1 \cup {hw, Link(LIST_LINK, <<hq, hw>>)},
                  vg |-> vg,
                  links |-> <<Link(LIST_LINK, <<hq, hw>>)>>,
                  path |-> "yes"]

\* solution that links the anchor to the variable, not to its grounding
solution_links_variable(S, bv, pg, vg) ==
    IF \E k \in DOMAIN vg : is_word_a_query(S, vg[k])
    THEN [ret |-> FALSE, space |-> S, vg |-> vg, links |-> <<>>,
          path |-> "variable"]
    ELSE LET hq == Node(ANCHOR_NODE, QUERY_SOLUTION)
             S1 == S \cup {hq}
         IN  IF 0 < Len(bv)
             THEN LET hv == bv[1]
                      vg1 == MapSubscript(vg, hv)
                      ha == vg1[hv]
                  IN  IF ~IsNode(ha)
                      THEN [ret |-> FALSE, space |-> S1, vg |-> vg1,
                            links |-> <<>>, path |-> "malformed"]
                      ELSE [ret |-> FALSE,
                            space |-> S1 \cup {Link(LIST_LINK, <<hq, hv>>)},
                            vg |-> vg1,
                            links |-> <<Link(LIST_LINK, <<hq, hv>>)>>,
                            path |-> "answer"]
             ELSE LET hw == Node(WORD_NODE, yes)
                  IN  [ret |-> FALSE,
                       space |-> S1 \cup {hw, Link(LIST_LINK, <<hq, hw>>)},
                       vg |-> vg,
                       links |-> <<Link(LIST_LINK, <<hq, hw>>)>>,
                       path |-> "yes"]

solution(S, bv, pg, vg) ==
    IF \E k \in DOMAIN vg : is_word_a_query(S, vg[k])
    THEN [ret |-> FALSE, space |-> S, vg |-> vg, links |-> <<>>,
          path |-> "variable"]
    ELSE LET hq == Node(ANCHOR_NODE, QUERY_SOLUTION)
             S1 == S \cup {hq}
         IN  IF 0 < Len(bv)
             THEN LET hv == bv[1]
                      vg1 == MapSubscript(vg, hv)
                      ha == vg1[hv]
                  IN  IF ~IsNode(ha)
                      THEN [ret |-> FALSE, space |-> S1, vg |-> vg1,
                            links |-> <<>>, path |-> "malformed"]
                      ELSE [ret |-> FALSE,
                            space |-> S1 \cup {Link(LIST_LINK, <<hq, ha>>)},
                            vg |-> vg1,
                            links |-> <<Link(LIST_LINK, <<hq, ha>>)>>,
                            path |-> "answer"]
             ELSE LET hw == Node(WORD_NODE, yes)
                  IN  [ret |-> FALSE,
                       space |-> S1 \cup {hw, Link(LIST_LINK, <<hq, hw>>)},
                       vg |-> vg,
                       links |-> <<Link(LIST_LINK, <<hq, hw>>)>>,
                       path |-> "yes"]

(***************************************************************************)
(* The atoms of the checked AtomSpaces: the question "what/who ate?" and   *)
(* a corpus sentence "... eats cake".                                      *)
(***************************************************************************)
wiAte == Node(WORD_INSTANCE_NODE, <<"a", "t", "e", "@", "1">>)
wiEats == Node(WORD_INSTANCE_NODE, <<"e", "a", "t", "s", "@", "2">>)
wiWhat == Node(WORD_INSTANCE_NODE, <<"w", "h", "a", "t", "@", "3">>)
wiWho == Node(WORD_INSTANCE_NODE, <<"w", "h", "o", "@", "4">>)
wiWhat2 == Node(WORD_INSTANCE_NODE, <<"w", "h", "a", "t", "@", "5">>)
semeCake == Node(SEME_NODE, <<"c", "a", "k", "e">>)
semeEat == Node(SEME_NODE, <<"e", "a", "t">>)
wEat == Node(WORD_NODE, <<"e", "a", "t">>)
wCake == Node(WORD_NODE, <<"c", "a", "k", "e">>)
dlcWho == Node(DEFINED_LINGUISTIC_CONCEPT_NODE, who)
dlcWhat == Node(DEFINED_LINGUISTIC_CONCEPT_NODE, what)
dlcWhen == Node(DEFINED_LINGUISTIC_CONCEPT_NODE, when)
dlcWhere == Node(DEFINED_LINGUISTIC_CONCEPT_NODE, where)
dlcWhy == Node(DEFINED_LINGUISTIC_CONCEPT_NODE, why)
dlcWhatCap == Node(DEFINED_LINGUISTIC_CONCEPT_NODE, <<"W", "h", "a", "t">>)
dlcPast == Node(DEFINED_LINGUISTIC_CONCEPT_NODE, <<"p", "a", "s", "t">>)
dlcPastInf == Node(DEFINED_LINGUISTIC_CONCEPT_NODE,
                   <<"p", "a", "s", "t", "_", "i", "n", "f">>)
cWhat == Node(CONCEPT_NODE, what)
cCake == Node(CONCEPT_NODE, <<"c", "a", "k", "e">>)
rIsa == Node(DEFINED_LINGUISTIC_RELATIONSHIP_NODE, isa)
rHypIsa == Node(DEFINED_LINGUISTIC_RELATIONSHIP_NODE, hypothetical_isa)
rObj == Node(DEFINED_LINGUISTIC_RELATIONSHIP_NODE, <<"_", "o", "b", "j">>)
anchor == Node(ANCHOR_NODE, QUERY_SOLUTION)

qList == Link(LIST_LINK, <<wiAte, wiWhat>>)
qEval == Link(EVALUATION_LINK, <<rObj, qList>>)
qList2 == Link(LIST_LINK, <<wiWho, wiWhat>>)
qEval2 == Link(EVALUATION_LINK, <<rIsa, qList2>>)
cList == Link(LIST_LINK, <<wiEats, semeCake>>)
cEval == Link(EVALUATION_LINK, <<rObj, cList>>)

BaseNodes == {wiAte, wiEats, wiWhat, wiWho, wiWhat2, semeCake, semeEat, wEat,
              wCake, dlcWho, dlcWhat, dlcWhen, dlcWhere, dlcWhy, dlcWhatCap,
              dlcPast, dlcPastInf, cWhat, cCake, rIsa, rHypIsa, rObj}

BaseLinks == {qList, qEval, qList2, qEval2, cList, cEval,
              Link(INHERITANCE_LINK, <<wiWhat2, dlcWhat>>),
              Link(INHERITANCE_LINK, <<wiAte, dlcPast>>),
              Link(INHERITANCE_LINK, <<wiEats, dlcWhatCap>>),
              Link(INHERITANCE_LINK, <<semeCake, cWhat>>),
              Link(INHERITANCE_LINK, <<cWhat, dlcWhere>>),
              Link(INHERITANCE_LINK, <<dlcWhy, cCake>>),
              Link(LEMMA_LINK, <<wiWho, dlcWho>>)}

\* Each subset of these is one way the parser may have marked the words
\* of the question: word to concept, concept to word, a link to a concept.
WordQueryLinks == {Link(INHERITANCE_LINK, <<wiWhat, dlcWhat>>),
                   Link(INHERITANCE_LINK, <<dlcWho, wiWho>>)}

QueryLinks == WordQueryLinks \cup {Link(INHERITANCE_LINK, <<qList2, dlcWhen>>)}

\* At most one LemmaLink starts at an atom.
LemmaLinks == {Link(LEMMA_LINK, <<wiAte, wEat>>),
               Link(LEMMA_LINK, <<wiEats, wEat>>),
               Link(LEMMA_LINK, <<semeEat, wEat>>),
               Link(LEMMA_LINK, <<semeCake, wCake>>),
               Link(LEMMA_LINK, <<cCake, wCake>>)}

Nodes(S) == {a \in S : IsNode(a)}


(***************************************************************************)
(* Bounds and input sets.                                                  *)
(***************************************************************************)
\* the number of links solution may have given to addLink
MaxSolutions == 2

\* the top-level elements of the question's predicate
Tops == {qEval, qEval2, wiWhat}

\* handles given directly to add_to_vars and to add_to_predicate
DirectVars == {wiWhat, qList2, wiAte}
PredicateParts == {qEval, qEval2}

\* what the search engine may ground a variable by: an answer, another
\* question's word, a word instance, a link
GroundValues == {semeCake, wiWhat2, wiEats, cList}

Groundings(K) == UNION {[D -> GroundValues] : D \in SUBSET K}

PredGroundings == {<<>>, [x \in {qEval} |-> cEval]}

NoCall == [op |-> "none", a |-> NULL, b |-> NULL, ret |-> FALSE, branch |-> ""]

Call(op, a, b, ret, branch) ==
    [op |-> op, a |-> a, b |-> b, ret |-> ret, branch |-> branch]

(***************************************************************************)
(* Actions: one per call into WordRelQuery.                                *)
(***************************************************************************)
\* The three matching calls are applied to the arguments drawn by InitMatch.
IsWordAQuery ==
    /\ last.op = "input"
    /\ last.b = NULL
    /\ last' = Call("is_word_a_query", last.a, NULL,
                    is_word_a_query(atom_space, last.a), "")
    /\ UNCHANGED <<atom_space, normed_predicate, bound_vars, pred_grounding,
                   var_grounding, added_links, tops, direct_vars>>

WordInstanceMatch ==
    /\ last.op = "input"
    /\ last.b # NULL
    /\ last' = Call("word_instance_match", last.a, last.b,
                    word_instance_match(atom_space, last.a, last.b), "")
    /\ UNCHANGED <<atom_space, normed_predicate, bound_vars, pred_grounding,
                   var_grounding, added_links, tops, direct_vars>>

NodeMatch ==
    /\ last.op = "input"
    /\ last.b # NULL
    /\ LET r == node_match(atom_space, last.a, last.b)
       IN  last' = Call("node_match", last.a, last.b, r.ret, r.branch)
    /\ UNCHANGED <<atom_space, normed_predicate, bound_vars, pred_grounding,
                   var_grounding, added_links, tops, direct_vars>>

\* The predicate and the bound variables are built before the search.
Building == last.op \in {"none", "find_vars", "add_to_vars", "add_to_predicate"}

AddToPredicate ==
    \E ah \in PredicateParts :
        /\ Building
        /\ normed_predicate' = add_to_predicate(normed_predicate, ah)
        /\ last' = Call("add_to_predicate", ah, NULL, FALSE, "")
        /\ UNCHANGED <<atom_space, bound_vars, pred_grounding, var_grounding,
                       added_links, tops, direct_vars>>

AddToVars ==
    \E ah \in DirectVars :
        /\ Building
        /\ bound_vars' = add_to_vars(bound_vars, ah)
        /\ direct_vars' = direct_vars \cup {ah}
        /\ last' = Call("add_to_vars", ah, NULL, FALSE, "")
        /\ UNCHANGED <<atom_space, normed_predicate, pred_grounding,
                       var_grounding, added_links, tops>>

FindVars ==
    \E h \in Tops :
        LET r == find_vars(atom_space, bound_vars, h)
        IN  /\ Building
            /\ bound_vars' = r.vars
            /\ tops' = tops \cup {h}
            /\ last' = Call("find_vars", h, NULL, r.ret, "")
            /\ UNCHANGED <<atom_space, normed_predicate, pred_grounding,
                           var_grounding, added_links, direct_vars>>

\* The search engine completes a grounding: one value for some of the
\* bound variables.  Each completed grounding is handed to solution before
\* the next one is built.
Unify ==
    \E vg \in Groundings(Range(bound_vars)), pg \in PredGroundings :
        /\ last.op # "unify"
        /\ var_grounding' = vg
        /\ pred_grounding' = pg
        /\ last' = Call("unify", NULL, NULL, FALSE, "")
        /\ UNCHANGED <<atom_space, normed_predicate, bound_vars, added_links,
                       tops, direct_vars>>

\* The search engine hands its grounding to solution.
Solution ==
    /\ Len(added_links) < MaxSolutions
    /\ \A k \in DOMAIN var_grounding : var_grounding[k] \in atom_space
    /\ LET r == solution(atom_space, bound_vars, pred_grounding, var_grounding)
       IN  /\ atom_space' = r.space
           /\ var_grounding' = r.vg
           /\ added_links' = added_links \o r.links
           /\ last' = Call("solution", NULL, NULL, r.ret, r.path)
           /\ UNCHANGED <<normed_predicate, bound_vars, pred_grounding, tops,
                          direct_vars>>

(***************************************************************************)
(* Specifications.                                                         *)
(***************************************************************************)
InitRest ==
    /\ normed_predicate = <<>>
    /\ bound_vars = <<>>
    /\ pred_grounding = <<>>
    /\ var_grounding = <<>>
    /\ added_links = <<>>
    /\ tops = {}
    /\ direct_vars = {}

\* The matching callbacks, over AtomSpaces with any of the lemma links and
\* any of the question marks, on any atom and on any two nodes.
InitMatch ==
    /\ \E L \in SUBSET LemmaLinks, Q \in SUBSET QueryLinks :
           atom_space = BaseNodes \cup {anchor} \cup BaseLinks \cup L \cup Q
    /\ InitRest
    /\ \/ \E w \in atom_space : last = Call("input", w, NULL, FALSE, "")
       \/ \E a \in Nodes(atom_space), b \in Nodes(atom_space) :
              last = Call("input", a, b, FALSE, "")

NextMatch == IsWordAQuery \/ WordInstanceMatch \/ NodeMatch

SpecMatch == InitMatch /\ [][NextMatch]_vars

\* Building the predicate and the bound variables of one question.
InitVars ==
    /\ \E Q \in SUBSET QueryLinks :
           atom_space = BaseNodes \cup BaseLinks \cup LemmaLinks \cup Q
    /\ InitRest
    /\ last = NoCall

NextVars == FindVars \/ AddToVars \/ AddToPredicate

SpecVars == InitVars /\ [][NextVars]_vars

\* One question: its variables are found, the search engine grounds them
\* and reports each grounding to solution.
Init ==
    /\ \E Q \in SUBSET WordQueryLinks :
           atom_space = BaseNodes \cup BaseLinks \cup LemmaLinks \cup Q
    /\ InitRest
    /\ last = NoCall

Next == FindVars \/ AddToPredicate \/ Unify \/ Solution

Spec == Init /\ [][Next]_vars


(***************************************************************************)
(* Vocabulary of the properties, stated on the AtomSpace itself.           *)
(***************************************************************************)
QuestionNames == {who, what, when, where, why}
IsaNames == {isa, hypothetical_isa}
WordTypes == {WORD_INSTANCE_NODE, WORD_NODE, SEME_NODE}

\* w is an end of an InheritanceLink whose other end is a
\* DefinedLinguisticConceptNode named by a question word
MarkedAsQuestion(S, w) ==
    \E l \in S :
        /\ l.type = INHERITANCE_LINK
        /\ Len(l.out) = 2
        /\ \E i \in {1, 2} :
               /\ l.out[i] = w
               /\ l.out[3 - i].type = DEFINED_LINGUISTIC_CONCEPT_NODE
               /\ l.out[3 - i].name \in QuestionNames

\* the atoms at the far end of the LemmaLinks that start at a
LemmaRoots(S, a) ==
    {l.out[2] : l \in {k \in S : /\ k.type = LEMMA_LINK
                                  /\ Len(k.out) = 2
                                  /\ k.out[1] = a}}

HasLemma(S, a) == LemmaRoots(S, a) # {}

\* the atoms reachable from a through outgoing sets, a included
RECURSIVE Below(_)
Below(a) == {a} \cup UNION {Below(a.out[i]) : i \in 1..Len(a.out)}

NoDuplicates(q) == \A i, j \in 1..Len(q) : q[i] = q[j] => i = j

\* some value of the grounding is a question word
VarSolvedByVar == \E k \in DOMAIN var_grounding :
                      MarkedAsQuestion(atom_space, var_grounding[k])

YesLink == Link(LIST_LINK, <<anchor, Node(WORD_NODE, yes)>>)

(***************************************************************************)
(* C1.  Whenever solution is called with a var_grounding one of whose      *)
(* values is a question word, it returns false and the AtomSpace is left   *)
(* as it was: no anchor, no "yes" node and no ListLink is added, whatever  *)
(* bound_vars and pred_grounding hold.                                     *)
(***************************************************************************)
C1_RejectsVarSolvedByVar ==
    [][(last'.op = "solution" /\ VarSolvedByVar) =>
           /\ last'.ret = FALSE
           /\ atom_space' = atom_space
           /\ added_links' = added_links]_vars

C1_Witness ==
    /\ last.op = "solution"
    /\ last.branch = "variable"
    /\ bound_vars = <<wiWhat, wiWho>>
    /\ pred_grounding # <<>>
    /\ wiWhat \in DOMAIN var_grounding
    /\ var_grounding[wiWhat] = wiWhat2
    /\ anchor \notin atom_space

(***************************************************************************)
(* C2.  As claimed: whenever solution is called with a var_grounding none  *)
(* of whose values is a question word, it gives exactly one ListLink       *)
(* starting at the anchor to addLink.                                      *)
(***************************************************************************)
C2_Original ==
    [][(last'.op = "solution" /\ ~VarSolvedByVar) =>
           /\ Len(added_links') = Len(added_links) + 1
           /\ added_links'[Len(added_links')].type = LIST_LINK
           /\ added_links'[Len(added_links')].out[1] = anchor]_vars

(***************************************************************************)
(* C2, amended.  Whenever solution is called with a var_grounding none of  *)
(* whose values is a question word: with bound_vars empty it gives         *)
(* ListLink(anchor, WordNode "yes") to addLink; with bound_vars not empty  *)
(* and its first variable grounded by a Node g it gives                    *)
(* ListLink(anchor, g) to addLink; each time exactly one link, also when   *)
(* the same link was given before; and with the first variable grounded    *)
(* by a Link or not grounded it gives no link.                             *)
(***************************************************************************)
C2_AttachesOneLink ==
    [][(last'.op = "solution" /\ ~VarSolvedByVar) =>
           IF bound_vars = <<>>
           THEN /\ added_links' = Append(added_links, YesLink)
                /\ {anchor, Node(WORD_NODE, yes), YesLink} \subseteq atom_space'
           ELSE IF /\ bound_vars[1] \in DOMAIN var_grounding
                   /\ IsNode(var_grounding[bound_vars[1]])
           THEN LET g == var_grounding[bound_vars[1]]
                IN  /\ added_links' =
                           Append(added_links, Link(LIST_LINK, <<anchor, g>>))
                    /\ {anchor, Link(LIST_LINK, <<anchor, g>>)}
                           \subseteq atom_space'
           ELSE added_links' = added_links]_vars

C2_Witness ==
    /\ last.op = "solution"
    /\ last.branch = "answer"
    /\ bound_vars = <<wiWhat, wiWho>>
    /\ DOMAIN var_grounding = {wiWhat, wiWho}
    /\ var_grounding[wiWhat] = semeCake
    /\ var_grounding[wiWho] = wiEats
    /\ added_links = <<Link(LIST_LINK, <<anchor, semeCake>>),
                       Link(LIST_LINK, <<anchor, semeCake>>)>>

(***************************************************************************)
(* C3.  For a solution node of type WordInstance, Word or Seme and a       *)
(* pattern node of any type that both have a lemma, node_match returns     *)
(* false when the two lemmas are the same atom and true when they differ;  *)
(* and node_match(a, a) returns false for a node a of these three types.   *)
(***************************************************************************)
C3_LexicalRoots ==
    last.op = "node_match" /\ last.b.type \in WordTypes =>
        /\ (HasLemma(atom_space, last.a) /\ HasLemma(atom_space, last.b)) =>
               (last.ret = FALSE <=>
                    LemmaRoots(atom_space, last.a) = LemmaRoots(atom_space, last.b))
        /\ last.a = last.b => last.ret = FALSE

C3_Witness ==
    /\ last.op = "node_match"
    /\ last.a = cCake
    /\ last.b = semeCake
    /\ LemmaRoots(atom_space, cCake) = {wCake}
    /\ LemmaRoots(atom_space, semeCake) = {wCake}
    /\ last.ret = FALSE

(***************************************************************************)
(* C4.  As claimed: for two distinct atoms of which at least one has no    *)
(* LemmaLink, word_instance_match returns true (mismatch).                 *)
(***************************************************************************)
C4_AbsentRootsMismatch ==
    (/\ last.op = "word_instance_match"
     /\ last.a # last.b
     /\ \/ ~HasLemma(atom_space, last.a)
        \/ ~HasLemma(atom_space, last.b)) => last.ret = TRUE

(***************************************************************************)
(* C5.  As claimed: for a pattern and a solution node that are both of     *)
(* type DefinedLinguisticRelationship, node_match returns false exactly    *)
(* when the pattern's name and the solution's name are both "isa" or       *)
(* "hypothetical_isa".                                                     *)
(***************************************************************************)
C5_RelationEquivalence ==
    (/\ last.op = "node_match"
     /\ last.a.type = DEFINED_LINGUISTIC_RELATIONSHIP_NODE
     /\ last.b.type = DEFINED_LINGUISTIC_RELATIONSHIP_NODE) =>
        (last.ret = FALSE <=>
             (last.a.name \in IsaNames /\ last.b.name \in IsaNames))

ReachableQuestionWords ==
    {x \in UNION {Below(t) : t \in tops} : MarkedAsQuestion(atom_space, x)}

C7_Original ==
    /\ NoDuplicates(bound_vars)
    /\ NoDuplicates(normed_predicate)
    /\ Range(bound_vars) = ReachableQuestionWords
    /\ \A i, j \in 1..Len(bound_vars) :
           bound_vars[i] \in Below(bound_vars[j]) \ {bound_vars[j]} => i < j
    /\ last.op = "find_vars" => last.ret = FALSE

(***************************************************************************)
(* C7, amended.  After any calls of find_vars, add_to_vars and             *)
(* add_to_predicate, the two lists hold no reference twice; add_to_vars    *)
(* and add_to_predicate with a reference already in the list leave the     *)
(* list as it was; bound_vars holds exactly the question words reachable   *)
(* from the top-level elements given to find_vars together with the        *)
(* references given directly to add_to_vars; each element that was not     *)
(* given directly to add_to_vars comes after the question words below it;  *)
(* and every find_vars call returns false.                                 *)
(***************************************************************************)
C7_BoundVariables ==
    /\ [](/\ NoDuplicates(bound_vars)
          /\ NoDuplicates(normed_predicate)
          /\ Range(bound_vars) = ReachableQuestionWords \cup direct_vars
          /\ \A i, j \in 1..Len(bound_vars) :
                 (/\ bound_vars[j] \notin direct_vars
                  /\ bound_vars[i] \in Below(bound_vars[j]) \ {bound_vars[j]}
                  /\ MarkedAsQuestion(atom_space, bound_vars[i]))
                     => i < j
          /\ last.op = "find_vars" => last.ret = FALSE)
    /\ [][/\ (last'.op = "add_to_vars" /\ last'.a \in Range(bound_vars))
                 => bound_vars' = bound_vars
          /\ (last'.op = "add_to_predicate"
                  /\ last'.a \in Range(normed_predicate))
                 => normed_predicate' = normed_predicate]_vars

C7_Witness ==
    /\ last.op = "find_vars"
    /\ last.a = qEval2
    /\ tops = {qEval, qEval2}
    /\ direct_vars = {}
    /\ bound_vars = <<wiWhat, wiWho, qList2>>

(***************************************************************************)
(* C8.  node_match returns true (mismatch) when the solution's type is     *)
(* none of Word, Seme, WordInstance and differs from the pattern's type,   *)
(* and when the solution's type is none of DefinedLinguisticRelationship,  *)
(* WordInstance, Word, Seme, DefinedLinguisticConcept (also for the same   *)
(* node twice).  It is not symmetric: a pattern of a non-word type against *)
(* a word-level solution is decided by the lemmas (when both have one),    *)
(* and the swapped pair is a mismatch.                                     *)
(***************************************************************************)
C8_NoAccidentalMatch ==
    last.op = "node_match" =>
        /\ (last.b.type \notin WordTypes /\ last.a.type # last.b.type)
               => last.ret = TRUE
        /\ last.b.type \notin (WordTypes \cup
                   {DEFINED_LINGUISTIC_RELATIONSHIP_NODE,
                    DEFINED_LINGUISTIC_CONCEPT_NODE})
               => last.ret = TRUE
        /\ (last.a.type \notin WordTypes /\ last.b.type \in WordTypes) =>
               /\ node_match(atom_space, last.b, last.a).ret = TRUE
               /\ (HasLemma(atom_space, last.a) /\ HasLemma(atom_space, last.b))
                      => (last.ret <=> LemmaRoots(atom_space, last.a)
                                           # LemmaRoots(atom_space, last.b))

C8_Witness ==
    /\ last.op = "node_match"
    /\ last.a = cCake
    /\ last.b = wiWho
    /\ HasLemma(atom_space, cCake)
    /\ last.ret = TRUE
    /\ node_match(atom_space, cCake, semeCake).ret = FALSE
    /\ node_match(atom_space, semeCake, cCake).ret = TRUE
    /\ node_match(atom_space, anchor, anchor).ret = TRUE

(***************************************************************************)
(* C9.  As claimed: no call of node_match reaches the                      *)
(* DefinedLinguisticConcept branch (lines 296-325).                        *)
(***************************************************************************)
C9_ConceptBranchDead ==
    last.op = "node_match" => last.branch # "concept"

(***************************************************************************)
(* C10.  As claimed: a call of solution leaves var_grounding,              *)
(* pred_grounding, the predicate and the bound variables as they were, on  *)
(* every path.                                                             *)
(***************************************************************************)
C10_GroundingReadOnly ==
    [][last'.op = "solution" =>
           /\ var_grounding' = var_grounding
           /\ pred_grounding' = pred_grounding
           /\ normed_predicate' = normed_predicate
           /\ bound_vars' = bound_vars]_vars

====
